---- MODULE Spec2Model ----
(***************************************************************************)
(* A model of the radix tree of js-search-rt (trunk/js-search-rt/          *)
(* RadixTree.js): insert, remove, the traversal that classifies a key and  *)
(* the handlers it dispatches to.                                          *)
(*                                                                         *)
(* Strings are sequences of one-character strings.  The tree is the object *)
(* graph hanging off this.tree: since every node object is referenced from *)
(* exactly one property of one parent, a node is named by its path, the    *)
(* sequence of property names (edge labels) leading to it from the root,   *)
(* and the tree is a function from the paths of its nodes to the node's    *)
(* "$" property: <<>> when the node has no "$", <<list>> when it has one.  *)
(***************************************************************************)
EXTENDS Integers, Sequences, FiniteSets, TLC

VARIABLES
    tree,          \* this.tree
    keywordCount,  \* this.keywordCount
    dataCount,     \* this.dataCount
    nops,          \* the number of calls made so far
    last,          \* the last call: its arguments, its outcome and its report
    pre,           \* the tree and the counters as the last call found them
    roundTrip,     \* follows an insert and the remove of the same key after it
    hist,          \* follows the scenarios of the calls made since construction
    others         \* the other two implementations, run side by side

vars == <<tree, keywordCount, dataCount, nops, last, pre, roundTrip, hist, others>>

-----------------------------------------------------------------------------
(* Bounds of the model.                                                    *)

\* number of insert/remove calls made on one tree
MaxOps == 4

\* number of calls made on one tree with the keys of the scenarios
MaxScenOps == 3

\* the number of calls made on one tree in the runs on one data list
MaxDataOps == 4

\* the number of calls made on one tree with the keys that have "$" in them
MaxDollarOps == 3

\* the number of calls made on the three implementations side by side
MaxEquivOps == 3
MaxSlotOps == 3
MaxOrderOps == 3
MaxCountOps == 6

-----------------------------------------------------------------------------
(* Strings.                                                                *)

\* String.prototype.charAt: "" past the end of the string
charAt(s, i) == IF i >= 0 /\ i < Len(s) THEN s[i + 1] ELSE ""

\* String.prototype.substr(start): the characters from index start on
substrFrom(s, start) == IF start >= Len(s) THEN <<>> ELSE SubSeq(s, start + 1, Len(s))

\* String.prototype.substr(start, length)
substr(s, start, length) ==
    IF start >= Len(s) \/ length <= 0 THEN <<>>
    ELSE SubSeq(s, start + 1, IF start + length < Len(s) THEN start + length ELSE Len(s))

\* String.prototype.toLowerCase on one character
toLowerCase(c) ==
    CASE c = "C" -> "c"
      [] c = "G" -> "g"
      [] c = "A" -> "a"
      [] c = "R" -> "r"
      [] c = "T" -> "t"
      [] OTHER -> c

\* replace(/ /g, "_") on one character
replaceSpace(c) == IF c = " " THEN "_" ELSE c

\* the optional alias table this.keySwap, given at construction
keySwap == (<<"c", "g">> :> <<"C", "a", "r", "d", " ", "G", "a", "m", "e">>)

\* _processKey without toLowerCase
processKeyCaseKept(key) ==
    LET swapped == IF key \in DOMAIN keySwap /\ keySwap[key] # <<>>
                   THEN keySwap[key] ELSE key
    IN  [i \in 1..Len(swapped) |-> replaceSpace(swapped[i])]

\* _processKey: alias substitution (only when the alias is truthy, i.e. a
\* non-empty string), then lower-casing and space replacement
processKey(key) ==
    LET swapped == IF key \in DOMAIN keySwap /\ keySwap[key] # <<>>
                   THEN keySwap[key] ELSE key
    IN  [i \in 1..Len(swapped) |-> replaceSpace(toLowerCase(swapped[i]))]

\* _processKey of an object made without the optional keySwap:
\* this.keySwap is undefined and the key is taken as it is
processKeyUnset(key) == [i \in 1..Len(key) |-> replaceSpace(toLowerCase(key[i]))]

\* names that every object literal inherits from Object.prototype
ObjectPrototypeNames ==
    { <<"c", "o", "n", "s", "t", "r", "u", "c", "t", "o", "r">>,
      <<"v", "a", "l", "u", "e", "O", "f">> }

\* processKey of part_000, whose keySwap is the object literal {}: for a key
\* that names an inherited member keySwap[key] is a function, which is
\* truthy, so the key becomes that function, and key.toLowerCase() is the
\* call of undefined: a TypeError
processKeyRaises(key) == key \in ObjectPrototypeNames

-----------------------------------------------------------------------------
(* Node objects.                                                           *)

\* the root object {} of a new tree
EmptyTree == (<<>> :> <<>>)

IsPrefix(p, q) == Len(p) <= Len(q) /\ SubSeq(q, 1, Len(p)) = p

\* the own properties of node p that hold a node: its edge labels (the
\* property "$" among them once a key that has "$" in it put a node there)
ChildLabels(t, p) == {q[Len(q)] : q \in {r \in DOMAIN t : Len(r) = Len(p) + 1 /\ IsPrefix(p, r)}}

\* node.$ is defined
HasData(t, p) == t[p] # <<>>

\* node.$
DataOf(t, p) == t[p][1]

\* _leafCount: the own properties of the node that are not "$"
leafCount(t, p) == Cardinality(ChildLabels(t, p) \ {<<"$">>})

\* _isEmpty written with the test of _leafCount, which skips "$"
isEmptyOfChildren(t, p) == ChildLabels(t, p) = {}

\* _isEmpty: Object.keys(node).length === 0, "$" counted
isEmpty(t, p) == ChildLabels(t, p) = {} /\ ~HasData(t, p)

\* delete parent[label]: the node at p and everything below it go
DeleteProp(t, p) == [q \in {r \in DOMAIN t : ~IsPrefix(p, r)} |-> t[q]]

\* the object at p, with paths relative to p
Subtree(t, p) ==
    [r \in {SubSeq(q, Len(p) + 1, Len(q)) : q \in {x \in DOMAIN t : IsPrefix(p, x)}}
        |-> t[p \o r]]

\* node.$ holds an object, written there under the label "$"
SlotIsNode(t, p) == Append(p, <<"$">>) \in DOMAIN t

\* parent[label] = object: whatever was at p is replaced by sub; under the
\* label "$" the object takes the place of the data list of the parent
AssignProp(t, p, sub) ==
    LET base == DeleteProp(t, p)
        set  == [q \in DOMAIN base \cup {p \o r : r \in DOMAIN sub} |->
                    IF IsPrefix(p, q) THEN sub[SubSeq(q, Len(p) + 1, Len(q))] ELSE base[q]]
    IN  IF p # <<>> /\ p[Len(p)] = <<"$">>
        THEN [set EXCEPT ![SubSeq(p, 1, Len(p) - 1)] = <<>>]
        ELSE set

\* the object literal {$:[data]}
DataNode(data) == (<<>> :> <<(<<data>>)>>)

\* the object literal {}
BareNode == (<<>> :> <<>>)

-----------------------------------------------------------------------------
(* Traversal.                                                              *)

\* the Index object a call starts with
Index(node) ==
    [node |-> node, nodeKey |-> <<>>, charsMatch |-> 0, ttlCharsMatch |-> 0,
     parents |-> <<>>]

\* the inner loop of _traverse: the number of leading characters of tempKey
\* that str repeats, counted from i
RECURSIVE matchChars(_, _, _)
matchChars(tempKey, str, i) ==
    IF i < Len(tempKey) /\ charAt(tempKey, i) = charAt(str, i)
    THEN matchChars(tempKey, str, i + 1)
    ELSE i

\* the children of the current node whose label matches at least one character
MatchingLabels(t, key, index) ==
    {str \in ChildLabels(t, index.node) :
        matchChars(substrFrom(key, index.ttlCharsMatch), str, 0) > 0}

\* the outer loop of _traverse: the first child (in property order) that
\* matches some characters updates the index and ends the loop.  "$" is
\* enumerated too but cannot match a key without "$".  The choice among
\* several matching children would follow property order; RadixProperty
\* shows there is never more than one.
scanChildren(t, key, index) ==
    IF MatchingLabels(t, key, index) = {} THEN index
    ELSE LET str == CHOOSE s \in MatchingLabels(t, key, index) : TRUE
             i   == matchChars(substrFrom(key, index.ttlCharsMatch), str, 0)
         IN  [node          |-> IF i = Len(str) THEN Append(index.node, str) ELSE index.node,
              nodeKey       |-> str,
              charsMatch    |-> i,
              ttlCharsMatch |-> index.ttlCharsMatch + i,
              parents       |-> IF i = Len(str) THEN Append(index.parents, index.node)
                                ELSE index.parents]

\* the recursion condition of _traverse without the test for progress
descendNoProgressTest(t, key, before, after) ==
    /\ after.ttlCharsMatch < Len(key)
    /\ leafCount(t, after.node) > 0
    /\ after.charsMatch = Len(after.nodeKey)

\* the condition under which _traverse calls itself again
descend(t, key, before, after) ==
    /\ after.ttlCharsMatch < Len(key)
    /\ leafCount(t, after.node) > 0
    /\ after.charsMatch = Len(after.nodeKey)
    /\ before.ttlCharsMatch # after.ttlCharsMatch

\* _traverse without the call of itself: one loop over the children of the
\* root
traverseNoDescent(t, key, index) == scanChildren(t, key, index)

\* _traverse: the index with which _processResults is called
RECURSIVE traverse(_, _, _)
traverse(t, key, index) ==
    LET after == scanChildren(t, key, index)
    IN  IF descend(t, key, index, after) THEN traverse(t, key, after) ELSE after

\* the invocations of _traverse for one key, each given by the index it
\* has after its loop over the children; the recursion is followed for
\* limit calls at most
RECURSIVE traverseSteps(_, _, _, _)
traverseSteps(t, key, index, limit) ==
    LET after == scanChildren(t, key, index)
    IN  IF descend(t, key, index, after) /\ limit > 0
        THEN <<after>> \o traverseSteps(t, key, after, limit - 1)
        ELSE <<after>>

\* _processResults with === key.length in the test of the exists case
processResultsExistsAtLength(key, index) ==
    IF index.ttlCharsMatch = 0 THEN "nonExists"
    ELSE IF index.ttlCharsMatch < Len(key) /\ index.charsMatch = Len(index.nodeKey)
    THEN "suffix"
    ELSE IF index.ttlCharsMatch = Len(key) /\ index.charsMatch = Len(index.nodeKey)
    THEN "exact"
    ELSE IF index.ttlCharsMatch = Len(key) THEN "exists"
    ELSE "failed"

\* _processResults: the case of the switch that is taken
processResults(key, index) ==
    IF index.ttlCharsMatch = 0 THEN "nonExists"
    ELSE IF index.ttlCharsMatch < Len(key) /\ index.charsMatch = Len(index.nodeKey)
    THEN "suffix"
    ELSE IF index.ttlCharsMatch = Len(key) /\ index.charsMatch = Len(index.nodeKey)
    THEN "exact"
    ELSE IF index.ttlCharsMatch > 0 THEN "exists"
    ELSE "failed"

\* the outcome of traversing an already processed key from the root
Outcome(t, key) == processResults(key, traverse(t, key, Index(<<>>)))

\* the node the traversal of an already processed key ends at
EndNode(t, key) == traverse(t, key, Index(<<>>)).node

-----------------------------------------------------------------------------
(* Handlers.  A handler takes the tree and the counters as a record st and *)
(* gives them back with what the call reports: raised is TRUE when the     *)
(* handler ends in an uncaught TypeError, report names the console.log     *)
(* message written.                                                        *)

Result(t, kc, dc, raised, report) ==
    [tree |-> t, keywordCount |-> kc, dataCount |-> dc, raised |-> raised,
     report |-> report]

Unchanged(st, raised, report) ==
    Result(st.tree, st.keywordCount, st.dataCount, raised, report)

\* _insertData with unshift for push: the value goes to the front
insertDataUnshift(st, key, data, index) ==
    LET t == st.tree
        n == index.node
    IN  Result(IF HasData(t, n) /\ Len(DataOf(t, n)) # 0
               THEN [t EXCEPT ![n] = <<(<<data>> \o DataOf(t, n))>>]
               ELSE [DeleteProp(t, Append(n, <<"$">>)) EXCEPT ![n] = <<(<<data>>)>>],
               st.keywordCount, st.dataCount + 1, FALSE, "none")

\* _insertData: index.node.$ = [data] also replaces an object held by "$"
insertData(st, key, data, index) ==
    LET t == st.tree
        n == index.node
    IN  Result(IF HasData(t, n) /\ Len(DataOf(t, n)) # 0
               THEN [t EXCEPT ![n] = <<Append(DataOf(t, n), data)>>]
               ELSE [DeleteProp(t, Append(n, <<"$">>)) EXCEPT ![n] = <<(<<data>>)>>],
               st.keywordCount, st.dataCount + 1, FALSE, "none")

\* _createNode with the matched characters left on the key
createNodeWholeKey(st, key, data, index) ==
    Result(AssignProp(st.tree, Append(index.node, key), DataNode(data)),
           st.keywordCount + 1, st.dataCount + 1, FALSE, "none")

\* _createNode
createNode(st, key, data, index) ==
    LET k == IF index.ttlCharsMatch # 0 THEN substrFrom(key, index.ttlCharsMatch) ELSE key
    IN  Result(AssignProp(st.tree, Append(index.node, k), DataNode(data)),
               st.keywordCount + 1, st.dataCount + 1, FALSE, "none")

\* _splitNode without the delete of the old edge
splitNodeOldEdgeKept(st, key, data, index) ==
    LET i            == index.ttlCharsMatch - index.charsMatch
        tempIndexKey == substrFrom(index.nodeKey, index.charsMatch)
        tempKey      == substr(key, i, index.charsMatch)
        mid          == Append(index.node, tempKey)
        old          == Append(index.node, index.nodeKey)
        str          == substrFrom(key, index.ttlCharsMatch)
        t1 == IF index.ttlCharsMatch = Len(key)
              THEN AssignProp(st.tree, mid, DataNode(data))
              ELSE AssignProp(AssignProp(st.tree, mid, BareNode),
                              Append(mid, str), DataNode(data))
        t2 == AssignProp(t1, Append(mid, tempIndexKey), Subtree(t1, old))
    IN  Result(t2, st.keywordCount + 1, st.dataCount + 1, FALSE, "none")

\* _splitNode without the append of the existing content to the new node
splitNodeOldChildDropped(st, key, data, index) ==
    LET i            == index.ttlCharsMatch - index.charsMatch
        tempKey      == substr(key, i, index.charsMatch)
        mid          == Append(index.node, tempKey)
        old          == Append(index.node, index.nodeKey)
        str          == substrFrom(key, index.ttlCharsMatch)
        t1 == IF index.ttlCharsMatch = Len(key)
              THEN AssignProp(st.tree, mid, DataNode(data))
              ELSE AssignProp(AssignProp(st.tree, mid, BareNode),
                              Append(mid, str), DataNode(data))
        t3 == DeleteProp(t1, old)
    IN  Result(t3, st.keywordCount + 1, st.dataCount + 1, FALSE, "none")

\* _splitNode
splitNode(st, key, data, index) ==
    LET i            == index.ttlCharsMatch - index.charsMatch
        tempIndexKey == substrFrom(index.nodeKey, index.charsMatch)
        tempKey      == substr(key, i, index.charsMatch)
        mid          == Append(index.node, tempKey)
        old          == Append(index.node, index.nodeKey)
        str          == substrFrom(key, index.ttlCharsMatch)
        t1 == IF index.ttlCharsMatch = Len(key)
              THEN AssignProp(st.tree, mid, DataNode(data))
              ELSE AssignProp(AssignProp(st.tree, mid, BareNode),
                              Append(mid, str), DataNode(data))
        t2 == AssignProp(t1, Append(mid, tempIndexKey), Subtree(t1, old))
        t3 == DeleteProp(t2, old)
    IN  Result(t3, st.keywordCount + 1, st.dataCount + 1, FALSE, "none")

\* JSON.stringify of a data value (the values of the model are integers)
stringify(v) == ToString(v)

\* the search loop of _removeData with the bound arrlen - 1: the last
\* element is never compared
RECURSIVE findDataShortLoop(_, _, _)
findDataShortLoop(list, data, i) ==
    IF i < Len(list) - 1 /\ stringify(data) # stringify(list[i + 1])
    THEN findDataShortLoop(list, data, i + 1)
    ELSE i

\* the search loop of _removeData: the 0-based index of the first element
\* whose JSON text equals that of data, the length of the list if none
RECURSIVE findData(_, _, _)
findData(list, data, i) ==
    IF i < Len(list) /\ stringify(data) # stringify(list[i + 1])
    THEN findData(list, data, i + 1)
    ELSE i

\* Array.prototype.splice(i): no count given, all from index i on goes
spliceToEnd(list, i) == SubSeq(list, 1, i)

\* Array.prototype.splice(i, 1)
splice(list, i) == SubSeq(list, 1, i) \o SubSeq(list, i + 2, Len(list))

\* the body of the inner loop of _removeEmptyParents for one parent: every
\* property of the parent that holds an empty object is deleted, "$" too
\* when it holds an empty list
\* (a parent that was deleted from the tree was empty then and has no
\* property left)
pruneParent(t, p) ==
    LET kept == [q \in {r \in DOMAIN t :
                          ~\E l \in ChildLabels(t, p) :
                              isEmpty(t, Append(p, l)) /\ IsPrefix(Append(p, l), r)}
                    |-> t[q]]
    IN  IF p \notin DOMAIN t THEN t
        ELSE IF HasData(kept, p) /\ DataOf(kept, p) = <<>>
        THEN [kept EXCEPT ![p] = <<>>] ELSE kept

\* Array.prototype.reverse: _removeEmptyParents reverses the array it is
\* given in place
reverse(list) == [i \in 1..Len(list) |-> list[Len(list) + 1 - i]]

\* _removeEmptyParents without parents.reverse(): the loop runs from the
\* first pushed parent (the root) to the last
RECURSIVE removeEmptyParentsRootFirst(_, _, _)
removeEmptyParentsRootFirst(t, parents, i) ==
    IF i = 0 THEN t
    ELSE removeEmptyParentsRootFirst(pruneParent(t, parents[Len(parents) - i + 1]),
                                     parents, i - 1)

\* _removeEmptyParents with the loop left after the first parent
removeEmptyParentsNearestOnly(t, parents, i) ==
    IF i = 0 THEN t ELSE pruneParent(t, parents[i])

\* _removeEmptyParents: parents.reverse(), then the loop over the parents,
\* here from the last pushed parent (i = Len(parents)) to the first
RECURSIVE removeEmptyParents(_, _, _)
removeEmptyParents(t, parents, i) ==
    IF i = 0 THEN t
    ELSE removeEmptyParents(pruneParent(t, parents[i]), parents, i - 1)

\* a number minus undefined
NaN == "NaN"

\* _removeData at a node whose "$" holds an object: the object has no
\* length, so the loop over the values does not run and no value is found;
\* without a value the length is subtracted from dataCount all the same
removeDataOfObject(st, data, index) ==
    LET n  == index.node
        t1 == DeleteProp(st.tree, Append(n, <<"$">>))
    IN  IF data = <<>>
        THEN Result(IF isEmpty(t1, n)
                    THEN removeEmptyParents(t1, index.parents, Len(index.parents))
                    ELSE t1,
                    st.keywordCount - 1, NaN, FALSE, "none")
        ELSE Unchanged(st, FALSE, "dataNotFound")

\* _removeData without the test for a list left empty by the splice
removeDataEmptyListKept(st, key, data, index) ==
    LET t == st.tree
        n == index.node
    IN  IF SlotIsNode(t, n) THEN removeDataOfObject(st, data, index)
        ELSE IF ~HasData(t, n) THEN Unchanged(st, TRUE, "none")
        ELSE IF data = <<>>
        THEN LET t1 == [t EXCEPT ![n] = <<>>]
             IN  Result(IF isEmpty(t1, n)
                        THEN removeEmptyParents(t1, index.parents, Len(index.parents))
                        ELSE t1,
                        st.keywordCount - 1, st.dataCount - Len(DataOf(t, n)),
                        FALSE, "none")
        ELSE LET arrlen == Len(DataOf(t, n))
                 i      == findData(DataOf(t, n), data[1], 0)
             IN  IF i < arrlen
                 THEN Result([t EXCEPT ![n] = <<splice(DataOf(t, n), i)>>],
                             st.keywordCount, st.dataCount - 1, FALSE, "none")
                 ELSE Unchanged(st, FALSE, "dataNotFound")

\* _removeData; data is <<>> for an undefined argument and <<v>> for v.
\* Reading index.node.$.length when the node has no "$" is a TypeError,
\* raised before anything is written.
removeData(st, key, data, index) ==
    LET t == st.tree
        n == index.node
    IN  IF SlotIsNode(t, n) THEN removeDataOfObject(st, data, index)
        ELSE IF ~HasData(t, n) THEN Unchanged(st, TRUE, "none")
        ELSE IF data = <<>>
        THEN LET t1 == [t EXCEPT ![n] = <<>>]
             IN  Result(IF isEmpty(t1, n)
                        THEN removeEmptyParents(t1, index.parents, Len(index.parents))
                        ELSE t1,
                        st.keywordCount - 1, st.dataCount - Len(DataOf(t, n)),
                        FALSE, "none")
        ELSE LET arrlen == Len(DataOf(t, n))
                 i      == findData(DataOf(t, n), data[1], 0)
             IN  IF i < arrlen
                 THEN LET spliced == splice(DataOf(t, n), i)
                          t1 == [t EXCEPT ![n] = <<spliced>>]
                          t2 == [t EXCEPT ![n] = <<>>]
                      IN  IF Len(spliced) = 0
                          THEN Result(IF isEmpty(t2, n)
                                      THEN removeEmptyParents(t2, index.parents,
                                                              Len(index.parents))
                                      ELSE t2,
                                      st.keywordCount - 1, st.dataCount - 1, FALSE, "none")
                          ELSE Result(t1, st.keywordCount, st.dataCount - 1, FALSE, "none")
                 ELSE Unchanged(st, FALSE, "dataNotFound")

\* _removeError with <= in the test of the second case
removeErrorSuffixUpToLength(st, key, data, index) ==
    Unchanged(st, FALSE,
              IF index.ttlCharsMatch = 0 THEN "doesntExist"
              ELSE IF index.ttlCharsMatch <= Len(key) THEN "containsSuffix"
              ELSE IF index.ttlCharsMatch > 0 THEN "partialMatch"
              ELSE "processFailed")

\* _removeError: the message of the case of the switch that is taken
removeError(st, key, data, index) ==
    Unchanged(st, FALSE,
              IF index.ttlCharsMatch = 0 THEN "doesntExist"
              ELSE IF index.ttlCharsMatch < Len(key) THEN "containsSuffix"
              ELSE IF index.ttlCharsMatch > 0 THEN "partialMatch"
              ELSE "processFailed")

-----------------------------------------------------------------------------
(* The public operations.                                                  *)

\* insert: the key is processed, the tree traversed, and _processResults
\* calls the callback of the outcome (nonExists and suffix: _createNode,
\* exact: _insertData, exists: _splitNode)
insertProcessed(st, k, data) ==
    LET index   == traverse(st.tree, k, Index(<<>>))
        outcome == processResults(k, index)
        r == CASE outcome \in {"nonExists", "suffix"} -> createNode(st, k, data, index)
               [] outcome = "exact"  -> insertData(st, k, data, index)
               [] outcome = "exists" -> splitNode(st, k, data, index)
               [] OTHER -> Unchanged(st, FALSE, "processFailed")
    IN  [outcome |-> outcome] @@ r

insert(st, key, data) == insertProcessed(st, processKey(key), data)

\* remove with _removeData given as the suffix callback
removeSuffixData(st, key, data) ==
    LET k       == processKey(key)
        index   == traverse(st.tree, k, Index(<<>>))
        outcome == processResults(k, index)
        r == CASE outcome \in {"nonExists", "exists"} -> removeError(st, k, data, index)
               [] outcome \in {"suffix", "exact"} -> removeData(st, k, data, index)
               [] OTHER -> Unchanged(st, FALSE, "processFailed")
    IN  [outcome |-> outcome] @@ r

\* remove: as insert, with the callbacks _removeError (nonExists, suffix,
\* exists) and _removeData (exact)
removeProcessed(st, k, data) ==
    LET index   == traverse(st.tree, k, Index(<<>>))
        outcome == processResults(k, index)
        r == CASE outcome \in {"nonExists", "suffix", "exists"} ->
                      removeError(st, k, data, index)
               [] outcome = "exact" -> removeData(st, k, data, index)
               [] OTHER -> Unchanged(st, FALSE, "processFailed")
    IN  [outcome |-> outcome] @@ r

remove(st, key, data) == removeProcessed(st, processKey(key), data)

-----------------------------------------------------------------------------
(* The other two implementations.  RadixTreeOld.js defines the prototype   *)
(* version twice; the second definitions (from line 402 on) are the ones   *)
(* in force.  Its functions and those of part_000 are those of the trunk   *)
(* version statement by statement, but for _removeData and, in part_000,   *)
(* the keySwap that processKey finds.                                      *)

\* RadixTree.prototype._removeData: the test for an empty node and the
\* pruning come after the if, on every path through it
removeDataOld(st, key, data, index) ==
    LET t == st.tree
        n == index.node
        parents == index.parents
    IN  IF SlotIsNode(t, n) THEN removeDataOfObject(st, data, index)
        ELSE IF ~HasData(t, n) THEN Unchanged(st, TRUE, "none")
        ELSE LET arrlen  == Len(DataOf(t, n))
                 i       == IF data = <<>> THEN 0 ELSE findData(DataOf(t, n), data[1], 0)
                 spliced == splice(DataOf(t, n), i)
                 r == IF data = <<>>
                      THEN Result([t EXCEPT ![n] = <<>>], st.keywordCount - 1,
                                  st.dataCount - arrlen, FALSE, "none")
                      ELSE IF i < arrlen
                      THEN (IF Len(spliced) = 0
                            THEN Result([t EXCEPT ![n] = <<>>], st.keywordCount - 1,
                                        st.dataCount - 1, FALSE, "none")
                            ELSE Result([t EXCEPT ![n] = <<spliced>>], st.keywordCount,
                                        st.dataCount - 1, FALSE, "none"))
                      ELSE Unchanged(st, FALSE, "dataNotFound")
             IN  Result(IF isEmpty(r.tree, n)
                        THEN removeEmptyParents(r.tree, parents, Len(parents))
                        ELSE r.tree,
                        r.keywordCount, r.dataCount, FALSE, r.report)

\* removeData of part_000: the statements of RadixTree.prototype._removeData
removeDataPart(st, key, data, index) == removeDataOld(st, key, data, index)

\* RadixTree.prototype.insert on an object made by new RadixTree(), which
\* sets no keySwap
insertOld(st, key, data) == insertProcessed(st, processKeyUnset(key), data)

\* RadixTree.prototype.remove
removeOld(st, key, data) ==
    LET k       == processKeyUnset(key)
        index   == traverse(st.tree, k, Index(<<>>))
        outcome == processResults(k, index)
        r == CASE outcome \in {"nonExists", "suffix", "exists"} ->
                      removeError(st, k, data, index)
               [] outcome = "exact" -> removeDataOld(st, k, data, index)
               [] OTHER -> Unchanged(st, FALSE, "processFailed")
    IN  [outcome |-> outcome] @@ r

\* insert of part_000
insertPart(st, key, data) ==
    IF processKeyRaises(key) THEN [outcome |-> "none"] @@ Unchanged(st, TRUE, "none")
    ELSE insertProcessed(st, processKeyUnset(key), data)

\* remove of part_000
removePart(st, key, data) ==
    IF processKeyRaises(key) THEN [outcome |-> "none"] @@ Unchanged(st, TRUE, "none")
    ELSE LET k       == processKeyUnset(key)
             index   == traverse(st.tree, k, Index(<<>>))
             outcome == processResults(k, index)
             r == CASE outcome \in {"nonExists", "suffix", "exists"} ->
                           removeError(st, k, data, index)
                    [] outcome = "exact" -> removeDataPart(st, k, data, index)
                    [] OTHER -> Unchanged(st, FALSE, "processFailed")
         IN  [outcome |-> outcome] @@ r

-----------------------------------------------------------------------------
(* The calls made on one tree.                                             *)

\* the raw keys the calls are made with
Keys ==
    { <<>>,
      <<"c", "a">>,
      <<"c", "a", "r">>,
      <<"c", "a", "r", "t">>,
      <<"c", "a", "s", "t">>,
      <<"d", "o", "g">> }

\* the raw keys of the scenarios on key processing and on shared prefixes
ScenKeys ==
    { <<"c", "a", "r">>,
      <<"c", "a", "r", "d">>,
      <<"c", "a", "r", "e">>,
      <<"C", "a", "r", "d", " ", "G", "a", "m", "e">>,
      <<"c", "a", "r", "d", "_", "g", "a", "m", "e">>,
      <<"c", "g">> }

\* the raw keys of the calls that work on the data list of one node
DataKeys ==
    { <<"c", "a">>,
      <<"c", "a", "t">> }

\* raw keys with the name of the data property in them.  Every "$" is the
\* first character of its key, so that it is matched against the
\* properties of the root only, which never has a data list.
DollarKeys ==
    { <<"$">>,
      <<"$", "a">>,
      <<"a">> }

\* the raw keys of the calls made on the three implementations
\* a key and the key followed by "$"
SlotKeys ==
    { <<"a">>,
      <<"a", "$">> }

\* keys of which one is a prefix of two others that part after it
OrderKeys ==
    { <<"c", "a">>,
      <<"c", "a", "r", "t">>,
      <<"c", "a", "s", "t">>,
      <<"d", "o", "g">> }

\* two keys that part after "ca", and "ca"
CountKeys ==
    { <<"c", "a">>,
      <<"c", "a", "r", "t">>,
      <<"c", "a", "s", "t">> }

EquivKeys ==
    { <<"c", "a">>,
      <<"c", "a", "r">>,
      <<"c", "a", "r", "t">>,
      <<"c", "o", "n", "s", "t", "r", "u", "c", "t", "o", "r">> }

\* the data values the calls are made with
Values == {1, 2}

ScenValues == {1, 2, 3}

DataValues == {1, 2, 99}

\* the data argument of remove: undefined, or a value
RemoveArgs(values) == {<<>>} \cup {<<v>> : v \in values}

Call(op, key, data) == [op |-> op, key |-> key, data |-> data]

\* the call sequences of section 8 that are followed from a new tree
ScenarioA ==
    << Call("insert", <<"c", "a", "r">>, <<1>>),
       Call("insert", <<"c", "a", "r", "d">>, <<2>>),
       Call("insert", <<"c", "a", "r", "e">>, <<3>>) >>

ScenarioB ==
    << Call("insert", <<"C", "a", "r", "d", " ", "G", "a", "m", "e">>, <<1>>),
       Call("insert", <<"c", "a", "r", "d", "_", "g", "a", "m", "e">>, <<2>>) >>

ScenarioC ==
    << Call("insert", <<"c", "a", "r", "t">>, <<1>>),
       Call("insert", <<"c", "a", "s", "t">>, <<2>>) >>

ScenarioD ==
    << Call("insert", <<"d", "o", "g">>, <<1>>),
       Call("remove", <<"d", "o", "g">>, <<>>) >>

ScenarioF ==
    << Call("insert", <<"c", "a", "t">>, <<1>>),
       Call("insert", <<"c", "a", "t">>, <<2>>),
       Call("remove", <<"c", "a", "t">>, <<1>>),
       Call("remove", <<"c", "a", "t">>, <<99>>) >>

Scenarios == {ScenarioA, ScenarioB, ScenarioC, ScenarioD, ScenarioF}

\* hist follows the calls made since construction for as long as they are
\* the beginning of one of the scenarios
Follow(h, call) ==
    IF h.on /\ \E s \in Scenarios :
                 /\ Len(h.calls) < Len(s)
                 /\ SubSeq(s, 1, Len(h.calls) + 1) = Append(h.calls, call)
    THEN [on |-> TRUE, calls |-> Append(h.calls, call)]
    ELSE [on |-> FALSE, calls |-> <<>>]

State == [tree |-> tree, keywordCount |-> keywordCount, dataCount |-> dataCount]

NoState == [tree |-> EmptyTree, keywordCount |-> 0, dataCount |-> 0]

\* one of the other implementations after construction
NoImpl == [tree |-> EmptyTree, keywordCount |-> 0, dataCount |-> 0, raised |-> FALSE]

\* what a call leaves of one of the other implementations
Impl(r) ==
    [tree |-> r.tree, keywordCount |-> r.keywordCount, dataCount |-> r.dataCount,
     raised |-> r.raised]

\* roundTrip holds the state an insert found and the outcome of the insert,
\* and keeps them through a remove of the same raw key without a data
\* argument that comes right after it
Track(rt, prev, op, key, data, st, outcome) ==
    IF op = "insert" THEN [phase |-> "inserted", st |-> st, outcome |-> outcome]
    ELSE IF /\ rt.phase = "inserted" /\ prev.op = "insert" /\ prev.key = key
            /\ data = <<>>
    THEN [phase |-> "removed", st |-> rt.st, outcome |-> rt.outcome]
    ELSE [phase |-> "none", st |-> NoState, outcome |-> "none"]

Init ==
    /\ tree = EmptyTree
    /\ keywordCount = 0
    /\ dataCount = 0
    /\ nops = 0
    /\ last = [op |-> "none", key |-> <<>>, data |-> <<>>, outcome |-> "none",
               raised |-> FALSE, report |-> "none"]
    /\ pre = NoState
    /\ roundTrip = [phase |-> "none", st |-> NoState, outcome |-> "none"]
    /\ hist = [on |-> TRUE, calls |-> <<>>]
    /\ others = [old |-> NoImpl, part |-> NoImpl]

Apply(op, key, data, r) ==
    /\ tree' = r.tree
    /\ keywordCount' = r.keywordCount
    /\ dataCount' = r.dataCount
    /\ nops' = nops + 1
    /\ last' = [op |-> op, key |-> key, data |-> data, outcome |-> r.outcome,
                raised |-> r.raised, report |-> r.report]
    /\ pre' = State
    /\ roundTrip' = Track(roundTrip, last, op, key, data, State, r.outcome)
    /\ hist' = Follow(hist, Call(op, key, data))

Insert(key, data, max) ==
    /\ nops < max
    /\ Apply("insert", key, <<data>>, insert(State, key, data))
    /\ UNCHANGED others

Remove(key, data, max) ==
    /\ nops < max
    /\ Apply("remove", key, data, remove(State, key, data))
    /\ UNCHANGED others

\* the same insert on the three implementations, each made without keySwap
InsertAll(key, data, max) ==
    /\ nops < max
    /\ Apply("insert", key, <<data>>, insertProcessed(State, processKeyUnset(key), data))
    /\ others' = [old  |-> Impl(insertOld(others.old, key, data)),
                  part |-> Impl(insertPart(others.part, key, data))]

\* the same remove on the three implementations
RemoveAll(key, data, max) ==
    /\ nops < max
    /\ Apply("remove", key, data, removeProcessed(State, processKeyUnset(key), data))
    /\ others' = [old  |-> Impl(removeOld(others.old, key, data)),
                  part |-> Impl(removePart(others.part, key, data))]

Next ==
    \/ \E key \in Keys, data \in Values : Insert(key, data, MaxOps)
    \/ \E key \in Keys, data \in RemoveArgs(Values) : Remove(key, data, MaxOps)

Spec == Init /\ [][Next]_vars

NextScen ==
    \/ \E key \in ScenKeys, data \in ScenValues : Insert(key, data, MaxScenOps)
    \/ \E key \in ScenKeys, data \in RemoveArgs(ScenValues) : Remove(key, data, MaxScenOps)

SpecScen == Init /\ [][NextScen]_vars

NextData ==
    \/ \E key \in DataKeys, data \in DataValues : Insert(key, data, MaxDataOps)
    \/ \E key \in DataKeys, data \in RemoveArgs(DataValues) : Remove(key, data, MaxDataOps)

SpecData == Init /\ [][NextData]_vars

NextDollar ==
    \/ \E key \in DollarKeys, data \in Values : Insert(key, data, MaxDollarOps)
    \/ \E key \in DollarKeys, data \in RemoveArgs(Values) : Remove(key, data, MaxDollarOps)

SpecDollar == Init /\ [][NextDollar]_vars

NextEquiv ==
    \/ \E key \in EquivKeys, data \in Values : InsertAll(key, data, MaxEquivOps)
    \/ \E key \in EquivKeys, data \in RemoveArgs(Values) : RemoveAll(key, data, MaxEquivOps)

SpecEquiv == Init /\ [][NextEquiv]_vars

\* a key and the same key followed by "$": calls that write to the "$" of
\* the node of a key; the removes name a value
NextSlot ==
    \/ \E key \in SlotKeys, data \in Values : Insert(key, data, MaxSlotOps)
    \/ \E key \in SlotKeys, data \in Values : Remove(key, <<data>>, MaxSlotOps)

SpecSlot == Init /\ [][NextSlot]_vars

\* inserts of one value and removes of whole keys, in sequences long enough
\* to insert three keys and remove them again
NextCount ==
    \/ \E key \in CountKeys : Insert(key, 1, MaxCountOps)
    \/ \E key \in CountKeys : Remove(key, <<>>, MaxCountOps)

SpecCount == Init /\ [][NextCount]_vars

-----------------------------------------------------------------------------
(* What a full scan of the tree finds.                                     *)

\* the nodes that hold a non-empty data list
NodesWithData(t) == {p \in DOMAIN t : HasData(t, p) /\ Len(DataOf(t, p)) > 0}

\* the key characters spelled by the labels of a path
RECURSIVE Flat(_)
Flat(p) == IF p = <<>> THEN <<>> ELSE Head(p) \o Flat(Tail(p))

\* the keys that a node of the tree holds data for
StoredKeys(t) == {Flat(q) : q \in NodesWithData(t)}

\* inserts only, each of a key that the tree does not hold
NextOrder ==
    \E key \in OrderKeys \ StoredKeys(tree), data \in Values :
        Insert(key, data, MaxOrderOps)

SpecOrder == Init /\ [][NextOrder]_vars

\* the sum of the lengths of the data lists of the nodes in ps
RECURSIVE DataTotal(_, _)
DataTotal(t, ps) ==
    IF ps = {} THEN 0
    ELSE LET p == CHOOSE x \in ps : TRUE
         IN  (IF HasData(t, p) THEN Len(DataOf(t, p)) ELSE 0) + DataTotal(t, ps \ {p})

\* the processed key of the last call
LastKey == processKey(last.key)

\* the index the traversal of the last call ended with
LastIndex == traverse(pre.tree, LastKey, Index(<<>>))

-----------------------------------------------------------------------------
(* Claims.                                                                 *)

\* C1: after any sequence of insert and remove calls from an empty tree,
\* keywordCount is the number of nodes holding a non-empty data list and
\* dataCount is the sum of the lengths of all data lists.
C1_CountersEqualScan ==
    /\ keywordCount = Cardinality(NodesWithData(tree))
    /\ dataCount = DataTotal(tree, DOMAIN tree)

\* C2: after any sequence of insert and remove calls, no node (the root
\* included) has two child edge labels that begin with the same character.
C2_RadixProperty ==
    \A p \in DOMAIN tree :
        \A l1, l2 \in ChildLabels(tree, p) :
            (l1 # l2 /\ l1 # <<>> /\ l2 # <<>>) => l1[1] # l2[1]

\* C2 witness: a remove has pruned the tree and a node with several children
\* is left.
C2_Witness ==
    /\ last.op = "remove" /\ ~last.raised /\ DOMAIN tree # DOMAIN pre.tree
    /\ \E p \in DOMAIN tree : Cardinality(ChildLabels(tree, p)) >= 2

\* C3: insert never fails: it does not raise, and right after it the
\* traversal of the processed key ends exact at a node whose data list has
\* the inserted value as its last element (the empty key included).
C3_InsertEndsExact ==
    last.op = "insert" =>
        /\ ~last.raised
        /\ Outcome(tree, LastKey) = "exact"
        /\ HasData(tree, EndNode(tree, LastKey))
        /\ DataOf(tree, EndNode(tree, LastKey)) # <<>>
        /\ DataOf(tree, EndNode(tree, LastKey))[Len(DataOf(tree, EndNode(tree, LastKey)))]
             = last.data[1]

\* C4: remove never raises, whatever the key, the data argument and the
\* tree; a key ending exactly at a node without a data list is reported.
C4_RemoveNeverRaises == last.op = "remove" => ~last.raised

\* C5: a remove whose traversal outcome is non-existent, suffix or exists
\* changes nothing: the tree and both counters are as the call found them.
C5_ErrorOutcomesChangeNothing ==
    (last.op = "remove" /\ last.outcome \in {"nonExists", "suffix", "exists"}) =>
        /\ tree = pre.tree
        /\ keywordCount = pre.keywordCount
        /\ dataCount = pre.dataCount
        /\ ~last.raised

\* C5 witness: a remove of a key that goes on past a node holding data (the
\* suffix outcome) has returned.
C5_Witness ==
    /\ last.op = "remove" /\ last.outcome = "suffix"
    /\ HasData(pre.tree, LastIndex.node)

\* C6 as stated: for every reachable tree and every key, insert(key, v)
\* followed at once by remove(key) without a value leaves the tree and both
\* counters as they were before the insert.
C6_RoundTripEveryKey ==
    roundTrip.phase = "removed" =>
        /\ tree = roundTrip.st.tree
        /\ keywordCount = roundTrip.st.keywordCount
        /\ dataCount = roundTrip.st.dataCount

\* C6 amended: the round trip holds for every non-empty key whose traversal
\* before the insert is non-existent or suffix, where the insert adds a new
\* leaf: the tree and both counters are then as before the insert.
C6_RoundTripNewLeaf ==
    (/\ roundTrip.phase = "removed"
     /\ roundTrip.outcome \in {"nonExists", "suffix"}
     /\ LastKey # <<>>) =>
        /\ ~last.raised
        /\ tree = roundTrip.st.tree
        /\ keywordCount = roundTrip.st.keywordCount
        /\ dataCount = roundTrip.st.dataCount

\* C6 witness: a key that goes on past an existing node was inserted under
\* that node and removed again.
C6_Witness ==
    /\ roundTrip.phase = "removed" /\ roundTrip.outcome = "suffix"
    /\ ~last.raised /\ last.outcome = "exact"
    /\ Cardinality(DOMAIN tree) >= 2

\* the tree of scenario A
TreeA ==
    (<<>> :> <<>>)
    @@ (<< <<"c", "a", "r">> >> :> << <<1>> >>)
    @@ (<< <<"c", "a", "r">>, <<"d">> >> :> << <<2>> >>)
    @@ (<< <<"c", "a", "r">>, <<"e">> >> :> << <<3>> >>)

\* C7 as stated: after insert("car", 1), insert("card", 2),
\* insert("care", 3) on a new tree the root has the single child "car" with
\* the children "d" and "e", keywordCount is 2 and dataCount is 2.
C7_ScenarioATwoKeywords ==
    hist.calls = ScenarioA =>
        /\ ChildLabels(tree, <<>>) = {<<"c", "a", "r">>}
        /\ ChildLabels(tree, << <<"c", "a", "r">> >>) = {<<"d">>, <<"e">>}
        /\ keywordCount = 2
        /\ dataCount = 2

\* C7 amended: after the three inserts the root has the single child "car",
\* holding [1], with the leaf children "d", holding [2], and "e", holding
\* [3]; keywordCount is 3 and dataCount is 3.
C7_ScenarioA ==
    hist.calls = ScenarioA =>
        /\ ChildLabels(tree, <<>>) = {<<"c", "a", "r">>}
        /\ ChildLabels(tree, << <<"c", "a", "r">> >>) = {<<"d">>, <<"e">>}
        /\ tree = TreeA
        /\ keywordCount = 3
        /\ dataCount = 3

\* C7 witness: the three calls of scenario A have been made on a new tree.
C7_Witness == hist.calls = ScenarioA /\ last.outcome = "suffix"

\* the normal form of a raw key as the key codec is specified: the alias if
\* the table has one, every character lower-cased, every space an underscore
NormalForm(key) ==
    LET k == IF key \in DOMAIN keySwap THEN keySwap[key] ELSE key
    IN  [i \in 1..Len(k) |-> IF k[i] = " " THEN "_" ELSE toLowerCase(k[i])]

\* C8: raw keys with the same normal form address the same node: an insert
\* or a remove under one does what it does under the other, in every
\* reachable tree; insert("Card Game", 1), insert("card_game", 2) gives one
\* node holding [1, 2], dataCount 2 and keywordCount 1.
C8_SameNormalFormSameNode ==
    /\ last.op # "none" => Outcome(pre.tree, NormalForm(last.key)) = last.outcome
    /\ \A k2 \in ScenKeys :
          (last.op # "none" /\ k2 # last.key /\ NormalForm(k2) = NormalForm(last.key)) =>
              /\ \A v \in ScenValues :
                    insert(State, k2, v) = insert(State, last.key, v)
              /\ \A d \in RemoveArgs(ScenValues) :
                    remove(State, k2, d) = remove(State, last.key, d)
    /\ hist.calls = ScenarioB =>
          /\ tree = (<<>> :> <<>>)
                    @@ (<< <<"c", "a", "r", "d", "_", "g", "a", "m", "e">> >>
                          :> << <<1, 2>> >>)
          /\ dataCount = 2
          /\ keywordCount = 1

\* C8 witness: the two calls of scenario B have been made on a new tree.
C8_Witness == hist.calls = ScenarioB /\ last.outcome = "exact"

\* the number of key characters spelled by the labels of a path
RECURSIVE PathLen(_)
PathLen(p) == IF p = <<>> THEN 0 ELSE Len(Head(p)) + PathLen(Tail(p))

\* the longest common prefix of two strings
RECURSIVE CommonPrefix(_, _)
CommonPrefix(a, b) ==
    IF a = <<>> \/ b = <<>> \/ Head(a) # Head(b) THEN <<>>
    ELSE <<Head(a)>> \o CommonPrefix(Tail(a), Tail(b))

\* the tree a split is to leave: under node parent the edge oldLabel is
\* replaced by the edge common, whose node holds the old child under
\* oldRest and, when the key goes on, a new leaf under keyRest
SplitTree(t, parent, oldLabel, common, oldRest, keyRest, value) ==
    LET old    == Append(parent, oldLabel)
        mid    == Append(parent, common)
        moved  == Append(mid, oldRest)
        leaf   == Append(mid, keyRest)
        dom    == {q \in DOMAIN t : ~IsPrefix(old, q)}
                  \cup {mid}
                  \cup {moved \o SubSeq(q, Len(old) + 1, Len(q)) :
                            q \in {x \in DOMAIN t : IsPrefix(old, x)}}
                  \cup (IF keyRest # <<>> THEN {leaf} ELSE {})
    IN  [q \in dom |->
            IF q = mid THEN (IF keyRest = <<>> THEN << <<value>> >> ELSE <<>>)
            ELSE IF keyRest # <<>> /\ q = leaf THEN << <<value>> >>
            ELSE IF IsPrefix(moved, q) THEN t[old \o SubSeq(q, Len(moved) + 1, Len(q))]
            ELSE t[q]]

\* C9: an insert whose key leaves an edge label after a non-empty common
\* prefix p replaces the edge by an edge p to a new node; with key
\* characters left the new node has no data and exactly two children, the
\* old child (subtree and data unchanged) under the rest of the old label
\* and a leaf holding [value] under the rest of the key; with the key used
\* up the new node holds [value] and the old child is its only child.
\* insert("cart", 1), insert("cast", 2) gives "ca" with "rt" and "st".
C9_SplitReplacesEdge ==
    /\ (last.op = "insert" /\ last.outcome = "exists") =>
          LET parent   == LastIndex.node
              oldLabel == LastIndex.nodeKey
              keyLeft  == substrFrom(LastKey, PathLen(parent))
              common   == CommonPrefix(keyLeft, oldLabel)
              oldRest  == substrFrom(oldLabel, Len(common))
              keyRest  == substrFrom(keyLeft, Len(common))
          IN  /\ common # <<>>
              /\ oldRest # <<>>
              /\ oldLabel \in ChildLabels(pre.tree, parent)
              /\ tree = SplitTree(pre.tree, parent, oldLabel, common, oldRest,
                                  keyRest, last.data[1])
              /\ ChildLabels(tree, Append(parent, common))
                    = IF keyRest = <<>> THEN {oldRest} ELSE {oldRest, keyRest}
    /\ hist.calls = ScenarioC =>
          /\ ChildLabels(tree, <<>>) = {<<"c", "a">>}
          /\ ChildLabels(tree, << <<"c", "a">> >>) = {<<"r", "t">>, <<"s", "t">>}
          /\ ~HasData(tree, << <<"c", "a">> >>)

\* C9 witness: the two calls of scenario C have been made on a new tree and
\* the second one split the edge "cart".
C9_Witness == hist.calls = ScenarioC /\ last.outcome = "exists"

\* C9, second case reached: a split by a key that the common prefix uses up.
C9_WitnessKeyUsedUp ==
    /\ last.op = "insert" /\ last.outcome = "exists"
    /\ HasData(tree, Append(LastIndex.node, CommonPrefix(
           substrFrom(LastKey, PathLen(LastIndex.node)), LastIndex.nodeKey)))

\* the nodes that go when the data of node n is deleted: n and its
\* ancestors other than the root, each as long as all that is below it is
\* the data-less chain down to n
Pruned(t, n) ==
    {a \in DOMAIN t :
        /\ a # <<>>
        /\ IsPrefix(a, n)
        /\ \A q \in DOMAIN t :
              IsPrefix(a, q) => (IsPrefix(q, n) /\ (q # n => ~HasData(t, q)))}

\* C10: remove(key) without a value at a node holding data deletes the
\* whole list, lowers dataCount by its length and keywordCount by one; a
\* node left without children is deleted from its parent, and so is, going
\* up, every ancestor left with no children and no data, the root excepted.
\* insert("dog", 1), remove("dog") leaves an empty root and counters 0.
C10_RemoveKeyDeletesListAndPrunes ==
    /\ (/\ last.op = "remove" /\ last.data = <<>> /\ last.outcome = "exact"
        /\ HasData(pre.tree, LastIndex.node)) =>
          LET n == LastIndex.node
          IN  /\ ~last.raised
              /\ dataCount = pre.dataCount - Len(DataOf(pre.tree, n))
              /\ keywordCount = pre.keywordCount - 1
              /\ tree = [q \in DOMAIN pre.tree \ Pruned(pre.tree, n) |->
                            IF q = n THEN <<>> ELSE pre.tree[q]]
    /\ hist.calls = ScenarioD =>
          /\ tree = EmptyTree
          /\ keywordCount = 0
          /\ dataCount = 0

\* C10 witness: a remove without a value deleted a leaf and, above it, an
\* ancestor that was left with no children and no data.
C10_Witness ==
    /\ last.op = "remove" /\ last.data = <<>> /\ last.outcome = "exact"
    /\ ~last.raised
    /\ Cardinality(Pruned(pre.tree, LastIndex.node)) >= 2

\* the place of the first element of list that equals v
FirstAt(list, v) ==
    CHOOSE j \in 1..Len(list) : list[j] = v /\ \A i \in 1..(j - 1) : list[i] # v

\* list without the element at place j
Without(list, j) ==
    [i \in 1..(Len(list) - 1) |-> IF i < j THEN list[i] ELSE list[i + 1]]

\* C11: remove(key, v) with v in the data list of the matched node removes
\* exactly one occurrence of v, the first one, and keeps the other values in
\* their order; dataCount goes down by one; keywordCount goes down by one
\* exactly when the list became empty, and then the list is deleted.
\* insert("cat", 1), insert("cat", 2), remove("cat", 1) leaves the list [2],
\* dataCount 1 and keywordCount 1.
C11_RemoveValueRemovesFirstOccurrence ==
    /\ (/\ last.op = "remove" /\ last.data # <<>> /\ last.outcome = "exact"
        /\ HasData(pre.tree, LastIndex.node)
        /\ \E j \in 1..Len(DataOf(pre.tree, LastIndex.node)) :
              DataOf(pre.tree, LastIndex.node)[j] = last.data[1]) =>
          LET n    == LastIndex.node
              list == DataOf(pre.tree, n)
              rest == Without(list, FirstAt(list, last.data[1]))
          IN  /\ ~last.raised
              /\ dataCount = pre.dataCount - 1
              /\ rest # <<>> =>
                    /\ tree = [pre.tree EXCEPT ![n] = <<rest>>]
                    /\ keywordCount = pre.keywordCount
              /\ rest = <<>> =>
                    /\ tree = [q \in DOMAIN pre.tree \ Pruned(pre.tree, n) |->
                                  IF q = n THEN <<>> ELSE pre.tree[q]]
                    /\ keywordCount = pre.keywordCount - 1
    /\ hist.calls = SubSeq(ScenarioF, 1, 3) =>
          /\ tree = (<<>> :> <<>>) @@ (<< <<"c", "a", "t">> >> :> << <<2>> >>)
          /\ dataCount = 1
          /\ keywordCount = 1

\* C11 witness: a remove with a value took the first of two equal values out
\* of a list of three and left the other two in their order.
C11_Witness ==
    /\ last.op = "remove" /\ last.data # <<>> /\ last.outcome = "exact"
    /\ HasData(pre.tree, LastIndex.node)
    /\ Len(DataOf(pre.tree, LastIndex.node)) = 3
    /\ DataOf(pre.tree, LastIndex.node)[1] = last.data[1]
    /\ DataOf(pre.tree, LastIndex.node)[3] = last.data[1]
    /\ DataOf(pre.tree, LastIndex.node)[2] # last.data[1]
    /\ DataOf(tree, LastIndex.node) = Tail(DataOf(pre.tree, LastIndex.node))

\* C11, the calls of scenario F up to remove("cat", 1) have been made.
C11_WitnessScenarioF == hist.calls = SubSeq(ScenarioF, 1, 3) /\ dataCount = 1

\* C12: remove(key, v) whose processed key ends exactly at a node holding
\* data, with v not in the list of that node, writes the value-not-found
\* report and leaves the tree, the list and both counters as they were; no
\* node is pruned.  After scenario F's remove("cat", 99) the list is still
\* [2].
C12_ValueNotFoundChangesNothing ==
    /\ (/\ last.op = "remove" /\ last.data # <<>> /\ last.outcome = "exact"
        /\ HasData(pre.tree, LastIndex.node)
        /\ \A j \in 1..Len(DataOf(pre.tree, LastIndex.node)) :
              DataOf(pre.tree, LastIndex.node)[j] # last.data[1]) =>
          /\ last.report = "dataNotFound"
          /\ ~last.raised
          /\ tree = pre.tree
          /\ keywordCount = pre.keywordCount
          /\ dataCount = pre.dataCount
    /\ hist.calls = ScenarioF =>
          /\ last.report = "dataNotFound"
          /\ DataOf(tree, << <<"c", "a", "t">> >>) = <<2>>
          /\ DOMAIN tree = {<<>>, << <<"c", "a", "t">> >>}

\* C12 witness: the four calls of scenario F have been made; the last one,
\* remove("cat", 99), found the list [2] and reported the value missing.
C12_Witness ==
    /\ hist.calls = ScenarioF
    /\ last.report = "dataNotFound"
    /\ DataOf(pre.tree, LastIndex.node) = <<2>>

\* C13: every node that has a data list has a non-empty one: a list that a
\* remove leaves empty is deleted within that remove call.
C13_DataListNeverEmpty ==
    \A p \in DOMAIN tree : HasData(tree, p) => DataOf(tree, p) # <<>>

\* C13 witness: a remove with a value took the only element of a list; the
\* node is still in the tree, and other nodes hold data.
C13_Witness ==
    /\ last.op = "remove" /\ last.data # <<>> /\ last.outcome = "exact"
    /\ HasData(pre.tree, LastIndex.node)
    /\ DataOf(pre.tree, LastIndex.node) = last.data
    /\ LastIndex.node \in DOMAIN tree
    /\ NodesWithData(tree) # {}

\* k is a strict prefix of a key that holds data and holds no data itself
StrictPrefixOnly(t, k) ==
    /\ k # <<>>
    /\ \E q \in NodesWithData(t) :
          Len(Flat(q)) > Len(k) /\ SubSeq(Flat(q), 1, Len(k)) = k
    /\ \A q \in NodesWithData(t) : Flat(q) # k

\* k ends exactly at a node other than the root
EndsAtNode(t, k) == \E q \in DOMAIN t : q # <<>> /\ Flat(q) = k

C14_WitnessAtNode ==
    /\ last.op = "remove" /\ StrictPrefixOnly(pre.tree, LastKey)
    /\ EndsAtNode(pre.tree, LastKey)

\* C15: remove of a key that leaves an edge label partway while key
\* characters are still unmatched (the outcome exists with ttlCharsMatch
\* below the key length) is reported with the partial-match report, not
\* with the suffix report: the report _removeError writes is always the one
\* of the outcome the traversal was classified with.
C15_ReportFollowsOutcome ==
    (last.op = "remove" /\ last.outcome \in {"nonExists", "suffix", "exists"}) =>
        last.report = CASE last.outcome = "nonExists" -> "doesntExist"
                        [] last.outcome = "suffix"    -> "containsSuffix"
                        [] last.outcome = "exists"    -> "partialMatch"

\* C16: pruning is idempotent: after a remove call that pruned, the
\* pruning pass run again over the ancestors the call recorded changes
\* nothing, neither on the array as the call left it (reversed, so that a
\* second call goes from the root down) nor in the order of the first pass.
C16_PruningIdempotent ==
    (last.op = "remove" /\ ~last.raised /\ DOMAIN tree # DOMAIN pre.tree) =>
        LET parents == LastIndex.parents
        IN  /\ removeEmptyParents(tree, reverse(parents), Len(parents)) = tree
            /\ removeEmptyParents(tree, parents, Len(parents)) = tree

\* C16 witness: a remove pruned a leaf and an ancestor of it, so that the
\* recorded ancestors hold a node that is no longer in the tree.
C16_Witness ==
    /\ last.op = "remove" /\ ~last.raised
    /\ Cardinality(DOMAIN pre.tree \ DOMAIN tree) >= 2
    /\ \E i \in 1..Len(LastIndex.parents) : LastIndex.parents[i] \notin DOMAIN tree

\* C17: after any sequence of insert and remove calls with arbitrary keys,
\* the empty string included, every edge label of the tree is a non-empty
\* string.
C17_EdgeLabelsNonEmpty ==
    \A p \in DOMAIN tree : \A i \in 1..Len(p) : p[i] # <<>>

\* every node other than the root that holds no data has two children or
\* more
Compressed(t) ==
    \A p \in DOMAIN t :
        (p # <<>> /\ ~HasData(t, p)) => Cardinality(ChildLabels(t, p)) >= 2

\* C18 as stated: the tree stays compressed through every insert and
\* remove: every node other than the root that holds no data has at least
\* two children, after a remove in particular.
C18_AlwaysCompressed == Compressed(tree)

\* C18 amended: insert keeps the tree compressed: when every data-less
\* node other than the root had at least two children before an insert,
\* the same holds after it.  (remove deletes empty nodes only and merges
\* nothing.)
C18_InsertKeepsCompressed ==
    (last.op = "insert" /\ Compressed(pre.tree)) => Compressed(tree)

\* C18 witness: an insert split an edge of a compressed tree and left a
\* data-less node with its two children.
C18_Witness ==
    /\ last.op = "insert" /\ last.outcome = "exists"
    /\ Compressed(pre.tree)
    /\ \E p \in DOMAIN tree : p # <<>> /\ ~HasData(tree, p)

\* C19: an insert whose traversal outcome is exact appends the value at the
\* end of the data list of the node, making a list of one element when the
\* node has none; dataCount goes up by one and keywordCount stays as it
\* was, whether or not the node had a list before; nothing else changes.
C19_ExactInsertAppends ==
    (last.op = "insert" /\ last.outcome = "exact") =>
        LET n   == LastIndex.node
            old == IF HasData(pre.tree, n) THEN DataOf(pre.tree, n) ELSE <<>>
        IN  /\ ~last.raised
            /\ tree = [pre.tree EXCEPT ![n] = <<Append(old, last.data[1])>>]
            /\ dataCount = pre.dataCount + 1
            /\ keywordCount = pre.keywordCount

\* C19 witness: an insert ended exact at a node that had children and no
\* data list.
C19_Witness ==
    /\ last.op = "insert" /\ last.outcome = "exact"
    /\ ~HasData(pre.tree, LastIndex.node)
    /\ DataOf(tree, LastIndex.node) = last.data

\* C19, other case reached: the node had a list with another value in it.
C19_WitnessListKept ==
    /\ last.op = "insert" /\ last.outcome = "exact"
    /\ HasData(pre.tree, LastIndex.node)
    /\ DataOf(pre.tree, LastIndex.node)[1] # last.data[1]

\* C20: every insert and remove terminates.  For every tree that is
\* reached and every key, _traverse calls itself only after a step that
\* raised ttlCharsMatch, so it is entered again at most (key length) times
\* before the key is classified (the recursion is followed here for one call
\* more than that); the ancestors it records, which bound the pruning pass,
\* are no more than the key has characters.
C20_TraversalBounded ==
    \A key \in Keys :
        LET k     == processKey(key)
            steps == traverseSteps(tree, k, Index(<<>>), Len(k) + 1)
        IN  /\ Len(steps) - 1 <= Len(k)
            /\ \A i \in 1..(Len(steps) - 1) :
                  steps[i].ttlCharsMatch >
                      (IF i = 1 THEN 0 ELSE steps[i - 1].ttlCharsMatch)
            /\ steps[Len(steps)] = traverse(tree, k, Index(<<>>))
            /\ Len(steps[Len(steps)].parents) <= Len(k)

\* C20 witness: the traversal of the last call entered _traverse three
\* times, each of the first two steps having matched a whole edge label.
C20_Witness ==
    /\ last.op # "none"
    /\ Len(traverseSteps(pre.tree, LastKey, Index(<<>>), Len(LastKey) + 1)) = 3
    /\ Len(LastIndex.parents) >= 2

\* the four outcomes of a traversal
Outcomes == {"nonExists", "suffix", "exact", "exists"}

\* C21: every traversal ends in exactly one of the four outcomes and one
\* handler is called for it: from no reachable tree and for no key is the
\* default case of _processResults taken, and no remove takes the default
\* case of _removeError.
C21_NoClassificationFailure ==
    /\ last.op # "none" =>
          /\ last.outcome \in Outcomes
          /\ last.outcome = Outcome(pre.tree, LastKey)
          /\ last.report # "processFailed"
    /\ (last.op = "remove" /\ last.outcome # "exact") =>
          last.report \in {"doesntExist", "containsSuffix", "partialMatch"}

\* C21 witness: a remove whose key left an edge label partway with key
\* characters unmatched was classified by the last case before the default
\* one and reported by _removeError.
C21_Witness ==
    /\ last.op = "remove" /\ last.outcome = "exists"
    /\ LastIndex.ttlCharsMatch < Len(LastKey)
    /\ last.report = "containsSuffix"

\* the largest number in a non-empty set of numbers
Max(S) == CHOOSE n \in S : \A m \in S : m <= n

\* the length of the longest prefix of k spelled along a path from the root
LongestMatch(t, k) == Max({Len(CommonPrefix(k, Flat(q))) : q \in DOMAIN t})

\* the nodes whose path spells a prefix of k
FullyMatched(t, k) ==
    {q \in DOMAIN t : Len(Flat(q)) <= Len(k) /\ SubSeq(k, 1, Len(Flat(q))) = Flat(q)}

\* the classification of a non-empty key k read off the key paths of t
RefOutcome(t, k) ==
    LET n        == LongestMatch(t, k)
        boundary == \E q \in FullyMatched(t, k) : Len(Flat(q)) = n
    IN  IF \A l \in ChildLabels(t, <<>>) : l = <<>> \/ l[1] # k[1] THEN "nonExists"
        ELSE IF boundary /\ n = Len(k) THEN "exact"
        ELSE IF boundary THEN "suffix"
        ELSE "exists"

\* C22: for every call with a non-empty processed key, made on any
\* reachable tree, the
\* outcome of the traversal is the classification read off the key paths
\* of the tree: exact when the labels of a path spell the key, exists when
\* the longest match ends inside an edge label, suffix when it ends at a
\* node after one character or more with key characters left, non-existent
\* when no label of the root begins with the first character of the key;
\* ttlCharsMatch is then the length of the longest prefix of the key that a
\* path from the root spells, and the node of the index is the deepest node
\* (in matched characters) whose path spells a prefix of the key.
C22_TraversalIsReference ==
    LET k     == LastKey
        t     == pre.tree
        index == LastIndex
    IN  (last.op # "none" /\ k # <<>>) =>
          /\ last.outcome = processResults(k, index)
          /\ processResults(k, index) = RefOutcome(t, k)
          /\ (processResults(k, index) = "nonExists") <=> (LongestMatch(t, k) = 0)
          /\ index.ttlCharsMatch = LongestMatch(t, k)
          /\ index.node \in FullyMatched(t, k)
          /\ Len(Flat(index.node)) = Max({Len(Flat(q)) : q \in FullyMatched(t, k)})

\* C22 witness: the key of the last call was classified suffix at a node
\* two levels down, which is the deepest node that spells a prefix of it.
C22_Witness ==
    /\ last.op # "none" /\ LastKey # <<>>
    /\ last.outcome = "suffix"
    /\ Len(LastIndex.node) >= 2
    /\ LastIndex.ttlCharsMatch = LongestMatch(pre.tree, LastKey)

\* the tree has a node below the first level, and of the keys one is
\* classified exact two levels down, one exists and one suffix
C22_WitnessAllOutcomes ==
    /\ last.op # "none"
    /\ \E key \in Keys : /\ Outcome(tree, processKey(key)) = "exact"
                         /\ Len(EndNode(tree, processKey(key))) >= 2
    /\ \E key \in Keys : Outcome(tree, processKey(key)) = "exists"
    /\ \E key \in Keys : Outcome(tree, processKey(key)) = "suffix"

\* C23: the name of the data property, "$", is never used as an edge label
\* and never matched as one: whatever the key, also one with "$" in it, no
\* node is put under the label "$", and no traversal takes "$" for the
\* label it matched.
C23_DollarNeverALabel ==
    /\ \A p \in DOMAIN tree : \A i \in 1..Len(p) : p[i] # <<"$">>
    /\ \A key \in DollarKeys :
          traverse(tree, processKey(key), Index(<<>>)).nodeKey # <<"$">>

\* C24: the three implementations, run side by side on the same calls,
\* have equal trees, equal keywordCount and equal dataCount after every
\* call, and a call raises in one exactly when it raises in the others.
C24_ImplementationsEquivalent ==
    \A impl \in {others.old, others.part} :
        /\ impl.tree = tree
        /\ impl.keywordCount = keywordCount
        /\ impl.dataCount = dataCount
        /\ impl.raised = last.raised

\* C24, the part that holds: the Object.create version and the prototype
\* version agree after every call.
C24_TrunkAndOldAgree ==
    /\ others.old.tree = tree
    /\ others.old.keywordCount = keywordCount
    /\ others.old.dataCount = dataCount
    /\ others.old.raised = last.raised

\* the map a tree stands for: the pairs of the key that the path of a
\* node spells and the data list of the node
Abs(t) == {<<Flat(q), DataOf(t, q)>> : q \in NodesWithData(t)}

KeysOf(m) == {x[1] : x \in m}

ListOf(m, k) == (CHOOSE x \in m : x[1] = k)[2]

\* the map after insert(k, v): v is appended to the list of k
MapInsert(m, k, v) ==
    IF k \in KeysOf(m)
    THEN (m \ {<<k, ListOf(m, k)>>}) \cup {<<k, Append(ListOf(m, k), v)>>}
    ELSE m \cup {<<k, <<v>>>>}

\* the map after remove(k) and remove(k, v): the key goes, or the first
\* value equal to v and, with the last value, the key
MapRemove(m, k, data) ==
    IF k \notin KeysOf(m) THEN m
    ELSE LET list == ListOf(m, k)
         IN  IF data = <<>> THEN m \ {<<k, list>>}
             ELSE IF \A j \in 1..Len(list) : list[j] # data[1] THEN m
             ELSE LET rest == Without(list, FirstAt(list, data[1]))
                  IN  IF rest = <<>> THEN m \ {<<k, list>>}
                      ELSE (m \ {<<k, list>>}) \cup {<<k, rest>>}

\* C25: the tree refines a map from key to value list: with every call
\* that has a non-empty key the pairs (key spelled by the path of a node
\* holding data, data list of the node) change as the map does, on insert
\* by appending the value to the list of the key, on remove without a
\* value by deleting the key, on remove with a value by deleting the first
\* equal value and, with the last value, the key; the list of no other key
\* changes, and no key is held twice.
C25_RefinesMap ==
    (last.op # "none" /\ LastKey # <<>>) =>
        /\ Abs(tree) = IF last.op = "insert"
                       THEN MapInsert(Abs(pre.tree), LastKey, last.data[1])
                       ELSE MapRemove(Abs(pre.tree), LastKey, last.data)
        /\ \A x, y \in Abs(tree) : x[1] = y[1] => x = y

\* the orders in which the members of a set can be taken
Orders(S) ==
    {s \in [1..Cardinality(S) -> S] : \A i, j \in 1..Cardinality(S) : s[i] = s[j] => i = j}

\* the state after the inserts of the pairs (key, list of one value) of s,
\* from the i-th on, made one after the other
RECURSIVE insertEach(_, _, _)
insertEach(st, s, i) ==
    IF i > Len(s) THEN st
    ELSE LET r == insert(st, s[i][1], s[i][2][1])
         IN  insertEach([tree |-> r.tree, keywordCount |-> r.keywordCount,
                         dataCount |-> r.dataCount], s, i + 1)

\* C26: the result of inserts of distinct non-empty keys does not depend on
\* their order: in a state reached by such inserts from a new tree, making
\* the same inserts in any other order on a new tree gives the same tree
\* (nodes, edge labels, data at the same paths) and the same keywordCount
\* and dataCount.
C26_InsertOrderIndependent ==
    \A s \in Orders(Abs(tree)) : insertEach(NoState, s, 1) = State

\* the part of C26 about the tree alone
C26_TreeOrderIndependent ==
    \A s \in Orders(Abs(tree)) : insertEach(NoState, s, 1).tree = tree

\* C27: after every call every node but the root has a data list or at
\* least one child: no node without children and without data is left in
\* the tree.
C27_NoEmptyNodeLeft ==
    \A p \in DOMAIN tree \ {<<>>} : HasData(tree, p) \/ ChildLabels(tree, p) # {}

\* a remove has taken the data of a leaf whose parent had nothing else, and
\* both nodes have gone
C27_Witness ==
    /\ last.op = "remove"
    /\ ~last.raised
    /\ Len(LastIndex.node) >= 2
    /\ LastIndex.node \notin DOMAIN tree
    /\ SubSeq(LastIndex.node, 1, Len(LastIndex.node) - 1) \notin DOMAIN tree
    /\ C27_NoEmptyNodeLeft

\* a remove has taken the data of a node that has children, and the node stays
C27_WitnessNodeKept ==
    /\ last.op = "remove"
    /\ ~last.raised
    /\ last.outcome = "exact"
    /\ LastIndex.node \in DOMAIN tree
    /\ ~HasData(tree, LastIndex.node)
    /\ C27_NoEmptyNodeLeft

\* C28: keywordCount and dataCount are never negative, and both are 0
\* whenever the root has no children after a remove, that is when every
\* key that was inserted has been removed again.
C28_CountersNeverNegativeAndZeroWhenEmptied ==
    /\ keywordCount >= 0
    /\ dataCount >= 0
    /\ (last.op = "remove" /\ ChildLabels(tree, <<>>) = {}) =>
           (keywordCount = 0 /\ dataCount = 0)

\* the first part of C28 alone
C28_CountersNeverNegative == keywordCount >= 0 /\ dataCount >= 0

====
